---------------------------- MODULE Spec2Model ----------------------------
(***************************************************************************)
(* A model of avatar2's generic Target (avatar2/targets/target.py): the    *)
(* guard built by action_valid_decorator_factory, the ten guarded actions, *)
(* shutdown(), update_state(), wait() and get_status().                    *)
(*                                                                         *)
(* Two specifications share the variables.  Spec runs every operation as   *)
(* one atomic step of a single caller (update_state being called between   *)
(* the caller's operations); Target.status holds no key but 'state' there. *)
(* StatusSpec is Spec with callers that also store auxiliary keys in       *)
(* Target.status, on a target that is given its execution and memory       *)
(* backends only.  ThreadSpec runs cont/stop/step, update_state            *)
(* and wait as separate threads, one step per read or write of the shared  *)
(* fields, as the interpreter may interleave them.                         *)
(*                                                                         *)
(* A capability ("protocol") object is an ordinary object: it is truthy    *)
(* and compares unequal to None, so `if self._x_protocol:` (shutdown) and  *)
(* `getattr(self, protocol) == None` (the guard) both test for an empty    *)
(* slot.  Each slot has its own backend instance.                          *)
(***************************************************************************)
EXTENDS Naturals, Sequences, FiniteSets

VARIABLES
    state,      \* self.state
    pending,    \* self._no_state_update_pending (the Event's flag)
    slot,       \* the six self._*_protocol attributes: None or "attached"
    status,     \* self.status, a dict: key -> value, Absent when the key is missing
    released,   \* history: the slots whose backend's shutdown() was invoked
    ret,        \* the last operation of the caller and how it ended
    calls,      \* the calls the last operation made, in order (see Call)
    pcMain,     \* ThreadSpec: the caller thread inside cont/stop/step
    pcUpd,      \* ThreadSpec: the backend thread inside update_state
    pcWait,     \* ThreadSpec: the waiting thread inside wait
    ghost,      \* ThreadSpec: history of which report answers which action
    pcShut,     \* ShutdownThreadSpec: a thread inside shutdown
    pcWait2,    \* WaitersSpec: a second waiting thread inside wait
    woken       \* WaitersSpec: history of the waiters one report released

objVars == <<state, pending, slot, status, released>>
obsVars == <<ret, calls>>
moreVars == <<pcShut, pcWait2, woken>>
thrVars == <<pcMain, pcUpd, pcWait, ghost, moreVars>>
vars == <<state, pending, slot, status, released, ret, calls,
          pcMain, pcUpd, pcWait, ghost, pcShut, pcWait2, woken>>

---------------------------------------------------------------------------
(* class TargetStates *)

TargetStates == {"CREATED", "INITIALIZED", "STOPPED", "RUNNING", "SYNCHING", "EXITED"}

None == "None"
Absent == "Absent"

\* The six capability slots, in the order shutdown() visits them.
ProtocolOrder ==
    <<"_exec_protocol", "_memory_protocol", "_register_protocol",
      "_signal_protocol", "_monitor_protocol", "_remote_memory_protocol">>

Protocols == {ProtocolOrder[i] : i \in 1..Len(ProtocolOrder)}

\* The methods decorated with action_valid_decorator_factory.
GuardedActions ==
    {"cont", "stop", "step", "write_memory", "read_memory", "write_register",
     "read_register", "set_breakpoint", "set_watchpoint", "remove_breakpoint"}

\* A variant of RequiredState: stop() decorated like the other actions.
RequiredState_AllStopped(a) == "STOPPED"

\* The decorator's `state` argument of each guarded action.
RequiredState(a) == IF a = "stop" THEN "RUNNING" ELSE "STOPPED"

\* The decorator's `protocol` argument of each guarded action.
RequiredProtocol(a) ==
    CASE a \in {"write_memory", "read_memory"} -> "_memory_protocol"
      [] a \in {"write_register", "read_register"} -> "_register_protocol"
      [] OTHER -> "_exec_protocol"

\* A variant of ClearsPending: set_breakpoint clears the Event as well.
ClearsPending_AlsoBreakpoint(a) == a \in {"cont", "stop", "step", "set_breakpoint"}

\* The bodies of cont, stop and step start with _no_state_update_pending.clear().
ClearsPending(a) == a \in {"cont", "stop", "step"}

---------------------------------------------------------------------------
(* What a backend does with a forwarded call: it returns a value or raises *)
(* an error of its own, and it may report a state by calling               *)
(* Target.update_state on the caller's thread before it does so.           *)

Results == {"r1", "r2"}
NoCb == "NoCb"

Errors == {"e1"}

Responses ==
    [kind : {"return"}, val : Results, cb : {NoCb, "RUNNING", "STOPPED"}]
    \cup [kind : {"raise"}, val : Errors, cb : {NoCb, "RUNNING", "STOPPED"}]

\* An entry of the call log: the receiver, the method, and what came back.
Call(to, method, result) == [to |-> to, method |-> method, result |-> result]

NoAnswer == [kind |-> "return", val |-> "r1", cb |-> NoCb]

\* Auxiliary values an external caller puts into Target.status.
AuxValues == {"v1", "v2"}

---------------------------------------------------------------------------
(* Target.__init__ *)

\* ghost, the history ThreadSpec keeps for the properties:
\*   acted      a cont/stop/step was forwarded
\*   answered   since the last forwarded cont/stop/step, an update_state(STOPPED)
\*              that was called after it has written the state
\*   updStale   the update_state call in progress was called before the last
\*              forwarded cont/stop/step
\*   waitAfter  the wait() in progress was called after the last forwarded
\*              cont/stop/step had returned
\*   waitRet    how the last wait() returned: "paired" when the state was
\*              STOPPED and the Event set at that moment, "unpaired" when not
\*   waitOn     for a wait() called after an action: "fresh" when `answered`
\*              held at its return, "stale" when not
NoHistory ==
    [acted |-> FALSE, answered |-> FALSE, updStale |-> FALSE,
     waitAfter |-> FALSE, waitRet |-> None, waitOn |-> None]

\* woken, the waiters one report released:
\*   armed     both waiters were inside wait() when the Event was last set
\*   returned  the waiters that returned from that wait() since
NoneWoken == [armed |-> FALSE, returned |-> {}]

\* pcWait2, the second waiter:
\*   pc     its position in wait()
\*   after  history: the state other than STOPPED whose report was called
\*          last while this waiter was inside wait() and the target was not
\*          STOPPED with the Event set; None after a report of STOPPED
NoWaiter == [pc |-> "idle", after |-> None]

NoRet == [op |-> "__init__", kind |-> "return", val |-> None, msg |-> <<>>]

Init ==
    /\ state = "CREATED"
    /\ pending = FALSE
    /\ slot = [p \in Protocols |-> None]
    /\ status = [state |-> Absent, aux |-> Absent]
    /\ released = {}
    /\ ret = NoRet
    /\ calls = <<>>
    /\ pcMain = [pc |-> "idle", op |-> None]
    /\ pcUpd = [pc |-> "idle", arg |-> None]
    /\ pcWait = [pc |-> "idle"]
    /\ ghost = NoHistory
    /\ pcShut = [pc |-> "idle", i |-> 0]
    /\ pcWait2 = NoWaiter
    /\ woken = NoneWoken

Returned(o, v) == [op |-> o, kind |-> "return", val |-> v, msg |-> <<>>]
Raised(o, m) == [op |-> o, kind |-> "error", val |-> None, msg |-> m]

---------------------------------------------------------------------------
(* The external initializer (a subclass's init, the orchestrator) stores a *)
(* backend in an empty slot, before the target is shut down.               *)

Attach(p) ==
    /\ slot[p] = None
    /\ released = {}
    /\ slot' = [slot EXCEPT ![p] = "attached"]
    /\ ret' = Returned("attach", None)
    /\ calls' = <<>>
    /\ UNCHANGED <<state, pending, status, released>>
    /\ UNCHANGED thrVars

(* Target.init: pass *)
InitHook ==
    /\ ret' = Returned("init", None)
    /\ calls' = <<>>
    /\ UNCHANGED objVars
    /\ UNCHANGED thrVars

---------------------------------------------------------------------------
(* action_valid_decorator_factory.decorator.check *)

\* The message of the first raise: "%s() requested but %s is undefined."
UndefinedMsg(a) == <<a, "() requested but ", RequiredProtocol(a), " is undefined.">>

\* A variant of WrongStateMsg: the text gives the required state.
WrongStateMsg_NamesRequired(a) ==
    <<a, "() requested but Target is ", RequiredState(a)>>

\* The message of the second raise: "%s() requested but Target is %s"
WrongStateMsg(a) == <<a, "() requested but Target is ", state>>

\* A variant of check: the two tests in the other order.
check_StateFirst(a) ==
    IF state # RequiredState(a) THEN "wrongstate"
    ELSE IF slot[RequiredProtocol(a)] = None THEN "undefined"
    ELSE "call"

\* What check does before it calls func: "undefined" and "wrongstate" are the
\* two raises, "call" is `return func(self, *args, **kwargs)`.
check(a) ==
    IF slot[RequiredProtocol(a)] = None THEN "undefined"
    ELSE IF state # RequiredState(a) THEN "wrongstate"
    ELSE "call"

\* The error check raises.
checkError(a) ==
    IF check(a) = "undefined" THEN Raised(a, UndefinedMsg(a))
    ELSE Raised(a, WrongStateMsg(a))

---------------------------------------------------------------------------
(* The guarded actions: Target.cont .. Target.remove_breakpoint.  The body *)
(* of each is one forwarded call, self.<protocol>.<same name>(...), whose  *)
(* result it returns; cont, stop and step clear the Event first.           *)

\* Target.update_state, as a function of the fields it writes.
update_state(s) == [state |-> s, pending |-> TRUE]

\* A variant of bodyFields: a raising backend call puts the Event back.
bodyFields_RestoresOnError(a, r) ==
    IF r.cb # NoCb THEN update_state(r.cb)
    ELSE [state |-> state,
          pending |-> IF ClearsPending(a) /\ r.kind # "raise" THEN FALSE
                      ELSE pending]

\* A variant of bodyFields: the Event is cleared after the forwarded call.
bodyFields_ClearsAfterForward(a, r) ==
    [state |-> IF r.cb # NoCb THEN r.cb ELSE state,
     pending |-> IF ClearsPending(a) THEN FALSE
                 ELSE IF r.cb # NoCb THEN TRUE ELSE pending]

\* A variant of bodyFields: cont() records RUNNING itself.
bodyFields_ContSetsRunning(a, r) ==
    IF r.cb # NoCb THEN update_state(r.cb)
    ELSE [state |-> IF a = "cont" THEN "RUNNING" ELSE state,
          pending |-> IF ClearsPending(a) THEN FALSE ELSE pending]

\* The fields after the body of action a, the backend answering with r.
bodyFields(a, r) ==
    IF r.cb # NoCb THEN update_state(r.cb)
    ELSE [state |-> state,
          pending |-> IF ClearsPending(a) THEN FALSE ELSE pending]

\* The calls the body of action a makes.
bodyCalls(a, r) ==
    <<Call(RequiredProtocol(a), a, r.val)>> \o
    (IF r.cb # NoCb THEN <<Call("self", "update_state", r.cb)>> ELSE <<>>)

\* How the body of action a ends: `return self.<protocol>.<a>(...)`.
bodyRet(a, r) ==
    IF r.kind = "raise" THEN Raised(a, <<"backend error ", r.val>>)
    ELSE Returned(a, r.val)

\* The backend answers only a call that is forwarded.
Answers(a) == IF check(a) = "call" THEN Responses ELSE {NoAnswer}

\* A variant of Guarded: the Event is cleared before the guard decides.
Guarded_ClearsBeforeCheck(a, r) ==
    /\ IF check(a) = "call"
       THEN /\ state' = bodyFields(a, r).state
            /\ pending' = bodyFields(a, r).pending
            /\ calls' = bodyCalls(a, r)
            /\ ret' = bodyRet(a, r)
       ELSE /\ ret' = checkError(a)
            /\ calls' = <<>>
            /\ pending' = (IF ClearsPending(a) THEN FALSE ELSE pending)
            /\ UNCHANGED state
    /\ UNCHANGED <<slot, status, released>>
    /\ UNCHANGED thrVars

\* One call of guarded action a.
Guarded(a, r) ==
    /\ IF check(a) = "call"
       THEN /\ state' = bodyFields(a, r).state
            /\ pending' = bodyFields(a, r).pending
            /\ calls' = bodyCalls(a, r)
            /\ ret' = bodyRet(a, r)
       ELSE /\ ret' = checkError(a)
            /\ calls' = <<>>
            /\ UNCHANGED <<state, pending>>
    /\ UNCHANGED <<slot, status, released>>
    /\ UNCHANGED thrVars

---------------------------------------------------------------------------
(* Target.update_state, called by a backend between the caller's operations *)

\* A variant of UpdateState: a target that has EXITED accepts no report.
UpdateState_ExitedIsFinal(s) ==
    /\ state # "EXITED"
    /\ state' = update_state(s).state
    /\ pending' = update_state(s).pending
    /\ ret' = Returned("update_state", None)
    /\ calls' = <<Call("self", "update_state", s)>>
    /\ UNCHANGED <<slot, status, released>>
    /\ UNCHANGED thrVars

UpdateState(s) ==
    /\ state' = update_state(s).state
    /\ pending' = update_state(s).pending
    /\ ret' = Returned("update_state", None)
    /\ calls' = <<Call("self", "update_state", s)>>
    /\ UNCHANGED <<slot, status, released>>
    /\ UNCHANGED thrVars

(* Target.wait, called by the only thread: the loop is left when the state *)
(* is STOPPED and the Event is set, and it is never left otherwise.        *)
\* A variant of waitMayBreak: the loop breaks on a cleared Event.
waitMayBreak_OnClearedEvent(st, flag) == st = "STOPPED" /\ ~flag

waitMayBreak(st, flag) == st = "STOPPED" /\ flag

Wait ==
    /\ waitMayBreak(state, pending)
    /\ ret' = Returned("wait", None)
    /\ calls' = <<>>
    /\ UNCHANGED objVars
    /\ UNCHANGED thrVars

\* A variant of get_status: a fresh dict holding the state alone.
get_status_FreshDict == [state |-> state, aux |-> Absent]

(* Target.get_status *)
get_status == [status EXCEPT !.state = state]

\* A variant of GetStatus: it also sets the Event, as update_state does.
GetStatus_SetsEvent ==
    /\ status' = get_status
    /\ pending' = TRUE
    /\ ret' = Returned("get_status", "self.status")
    /\ calls' = <<>>
    /\ UNCHANGED <<state, slot, released>>
    /\ UNCHANGED thrVars

GetStatus ==
    /\ status' = get_status
    /\ ret' = Returned("get_status", "self.status")
    /\ calls' = <<>>
    /\ UNCHANGED <<state, pending, slot, released>>
    /\ UNCHANGED thrVars

(* An external caller stores an auxiliary key in Target.status. *)
PutStatus(v) ==
    /\ status' = [status EXCEPT !.aux = v]
    /\ ret' = Returned("put_status", None)
    /\ calls' = <<>>
    /\ UNCHANGED <<state, pending, slot, released>>
    /\ UNCHANGED thrVars

---------------------------------------------------------------------------
(* Target.shutdown: the six `if self._x_protocol:` blocks in order.  F is  *)
(* the set of slots whose backend's shutdown() raises in this call; the    *)
(* raise leaves shutdown() at once, before the slot is set to None, so     *)
(* only the first such slot counts and Next draws F among None and the     *)
(* singletons.                                                             *)

\* A variant of shutdownBlock: the last block forgets `= None`.
shutdownBlock_KeepsLastSlot(w, p, F) ==
    IF w.raised # None \/ w.slot[p] = None THEN w
    ELSE [slot |-> IF p \in F \/ p = "_remote_memory_protocol" THEN w.slot
                   ELSE [w.slot EXCEPT ![p] = None],
          released |-> w.released \cup {p},
          calls |-> Append(w.calls, Call(p, "shutdown",
                                         IF p \in F THEN "e1" ELSE None)),
          raised |-> IF p \in F THEN p ELSE None]

\* One `if` block, from the running record w = [slot, released, calls, raised].
shutdownBlock(w, p, F) ==
    IF w.raised # None \/ w.slot[p] = None THEN w
    ELSE [slot |-> IF p \in F THEN w.slot ELSE [w.slot EXCEPT ![p] = None],
          released |-> w.released \cup {p},
          calls |-> Append(w.calls, Call(p, "shutdown",
                                         IF p \in F THEN "e1" ELSE None)),
          raised |-> IF p \in F THEN p ELSE None]

RECURSIVE shutdownBlocks(_, _, _)
shutdownBlocks(w, i, F) ==
    IF i > Len(ProtocolOrder) THEN w
    ELSE shutdownBlocks(shutdownBlock(w, ProtocolOrder[i], F), i + 1, F)

shutdown(F) ==
    shutdownBlocks([slot |-> slot, released |-> released, calls |-> <<>>,
                    raised |-> None], 1, F)

Attached == {p \in Protocols : slot[p] # None}

Shutdown(F) ==
    /\ slot' = shutdown(F).slot
    /\ released' = shutdown(F).released
    /\ calls' = shutdown(F).calls
    /\ ret' = IF shutdown(F).raised = None THEN Returned("shutdown", None)
              ELSE Raised("shutdown", <<"backend error ", shutdown(F).raised>>)
    /\ UNCHANGED <<state, pending, status>>
    /\ UNCHANGED thrVars

---------------------------------------------------------------------------
(* One caller, every operation atomic *)

Next ==
    \/ \E p \in Protocols : Attach(p)
    \/ InitHook
    \/ \E a \in GuardedActions : \E r \in Answers(a) : Guarded(a, r)
    \/ \E s \in TargetStates : UpdateState(s)
    \/ Wait
    \/ GetStatus
    \/ \E F \in {{}} \cup {{p} : p \in Attached} : Shutdown(F)

Spec == Init /\ [][Next]_vars

---------------------------------------------------------------------------
(* One caller as in Spec, and callers that fill Target.status *)

StatusSlots == {"_exec_protocol", "_memory_protocol"}

StatusNext ==
    \/ \E p \in StatusSlots : Attach(p)
    \/ InitHook
    \/ \E a \in GuardedActions : \E r \in Answers(a) : Guarded(a, r)
    \/ \E s \in TargetStates : UpdateState(s)
    \/ Wait
    \/ GetStatus
    \/ \E v \in AuxValues : PutStatus(v)
    \/ \E F \in {{}} \cup {{p} : p \in Attached} : Shutdown(F)

StatusSpec == Init /\ [][StatusNext]_vars

---------------------------------------------------------------------------
(* Threads.  The caller thread runs cont, stop and step one step per read  *)
(* or write of a shared attribute: check's getattr, check's read of        *)
(* self.state, the body's Event.clear(), the forwarded call.  A backend    *)
(* thread runs update_state: the write of self.state, then Event.set().    *)
(* A third thread runs wait: Event.wait(.1), which returns when the Event  *)
(* is set or the tenth of a second is over, then the read of self.state,   *)
(* then (the `and` evaluating its right side only after its left) the read *)
(* of the Event.  The backend answers a forwarded call without calling     *)
(* back on the caller's thread here; its reports come from its own thread. *)

ThreadActions == {"cont", "stop", "step"}

AsyncResponses == {r \in Responses : r.cb = NoCb}

MainCall(a) ==
    /\ pcMain.pc = "idle"
    /\ pcMain' = [pc |-> "check_slot", op |-> a]
    /\ UNCHANGED <<objVars, obsVars, pcUpd, pcWait, ghost>>
    /\ UNCHANGED moreVars

\* check: if getattr(self, protocol) == None: raise
MainCheckSlot ==
    /\ pcMain.pc = "check_slot"
    /\ IF slot[RequiredProtocol(pcMain.op)] = None
       THEN /\ ret' = Raised(pcMain.op, UndefinedMsg(pcMain.op))
            /\ calls' = <<>>
            /\ pcMain' = [pc |-> "idle", op |-> None]
       ELSE /\ pcMain' = [pcMain EXCEPT !.pc = "check_state"]
            /\ UNCHANGED obsVars
    /\ UNCHANGED <<objVars, pcUpd, pcWait, ghost>>
    /\ UNCHANGED moreVars

\* check: if self.state != state: raise
MainCheckState ==
    /\ pcMain.pc = "check_state"
    /\ IF state # RequiredState(pcMain.op)
       THEN /\ ret' = Raised(pcMain.op, WrongStateMsg(pcMain.op))
            /\ calls' = <<>>
            /\ pcMain' = [pc |-> "idle", op |-> None]
       ELSE /\ pcMain' = [pcMain EXCEPT !.pc = "clear"]
            /\ UNCHANGED obsVars
    /\ UNCHANGED <<objVars, pcUpd, pcWait, ghost>>
    /\ UNCHANGED moreVars

\* the body: self._no_state_update_pending.clear()
MainClear ==
    /\ pcMain.pc = "clear"
    /\ pending' = (IF ClearsPending(pcMain.op) THEN FALSE ELSE pending)
    /\ pcMain' = [pcMain EXCEPT !.pc = "forward"]
    /\ UNCHANGED <<state, slot, status, released, obsVars, pcUpd, pcWait, ghost>>
    /\ UNCHANGED moreVars

\* The error of Python for a method looked up on None.
NoneTypeMsg(a) == <<"'NoneType' object has no attribute ", a>>

\* the body: return self._exec_protocol.<op>()
MainForward(r) ==
    /\ pcMain.pc = "forward"
    /\ IF slot[RequiredProtocol(pcMain.op)] = None
       THEN /\ calls' = <<>>
            /\ ret' = Raised(pcMain.op, NoneTypeMsg(pcMain.op))
       ELSE /\ calls' = bodyCalls(pcMain.op, r)
            /\ ret' = bodyRet(pcMain.op, r)
    /\ pcMain' = [pc |-> "idle", op |-> None]
    /\ ghost' = [ghost EXCEPT !.acted = TRUE, !.answered = FALSE,
                              !.updStale = (pcUpd.pc # "idle"),
                              !.waitAfter = FALSE]
    /\ UNCHANGED <<objVars, pcUpd, pcWait>>
    /\ UNCHANGED moreVars

\* a backend thread calls Target.update_state(s)
UpdCall(s) ==
    /\ pcUpd.pc = "idle"
    /\ pcUpd' = [pc |-> "write_state", arg |-> s]
    /\ ghost' = [ghost EXCEPT !.updStale = FALSE]
    /\ pcWait2' = IF pcWait2.pc = "idle" THEN pcWait2
                  ELSE [pcWait2 EXCEPT !.after =
                          IF s # "STOPPED" /\ ~(state = "STOPPED" /\ pending)
                          THEN s ELSE None]
    /\ UNCHANGED <<objVars, obsVars, pcMain, pcWait>>
    /\ UNCHANGED <<pcShut, woken>>

\* update_state: self.state = state
UpdWriteState ==
    /\ pcUpd.pc = "write_state"
    /\ state' = update_state(pcUpd.arg).state
    /\ pcUpd' = [pcUpd EXCEPT !.pc = "set_event"]
    /\ ghost' = [ghost EXCEPT !.answered =
                    @ \/ (pcUpd.arg = "STOPPED" /\ ghost.acted /\ ~ghost.updStale)]
    /\ UNCHANGED <<pending, slot, status, released, obsVars, pcMain, pcWait>>
    /\ UNCHANGED moreVars

\* update_state: self._no_state_update_pending.set()
UpdSetEvent ==
    /\ pcUpd.pc = "set_event"
    /\ pending' = update_state(pcUpd.arg).pending
    /\ pcUpd' = [pc |-> "idle", arg |-> None]
    /\ woken' = [armed |-> /\ pcUpd.arg = "STOPPED"
                           /\ pcWait.pc # "idle" /\ pcWait2.pc # "idle",
                 returned |-> {}]
    /\ UNCHANGED <<state, slot, status, released, obsVars, pcMain, pcWait, ghost>>
    /\ UNCHANGED <<pcShut, pcWait2>>

\* a thread calls Target.wait()
WaitCall ==
    /\ pcWait.pc = "idle"
    /\ pcWait' = [pc |-> "event_wait"]
    /\ ghost' = [ghost EXCEPT !.waitAfter = (ghost.acted /\ pcMain.pc = "idle")]
    /\ UNCHANGED <<objVars, obsVars, pcMain, pcUpd>>
    /\ UNCHANGED moreVars

\* wait: self._no_state_update_pending.wait(.1)
WaitEvent ==
    /\ pcWait.pc = "event_wait"
    /\ pcWait' = [pc |-> "read_state"]
    /\ UNCHANGED <<objVars, obsVars, pcMain, pcUpd, ghost>>
    /\ UNCHANGED moreVars

\* wait: self.state == TargetStates.STOPPED and ...
WaitReadState ==
    /\ pcWait.pc = "read_state"
    /\ pcWait' = [pc |-> IF state = "STOPPED" THEN "read_event" ELSE "event_wait"]
    /\ UNCHANGED <<objVars, obsVars, pcMain, pcUpd, ghost>>
    /\ UNCHANGED moreVars

\* A variant of WaitReadEvent: the waiter that breaks clears the Event.
WaitReadEvent_ConsumesEvent ==
    /\ pcWait.pc = "read_event"
    /\ IF waitMayBreak("STOPPED", pending)
       THEN /\ pcWait' = [pc |-> "idle"]
            /\ ghost' = [ghost EXCEPT
                  !.waitRet = IF state = "STOPPED" /\ pending
                              THEN "paired" ELSE "unpaired",
                  !.waitOn = IF ~ghost.waitAfter THEN None
                             ELSE IF ghost.answered THEN "fresh" ELSE "stale",
                  !.waitAfter = FALSE]
            /\ woken' = IF woken.armed
                        THEN [woken EXCEPT !.returned = @ \cup {"pcWait"}]
                        ELSE woken
            /\ pending' = FALSE
       ELSE /\ pcWait' = [pc |-> "event_wait"]
            /\ UNCHANGED <<ghost, woken, pending>>
    /\ UNCHANGED <<state, slot, status, released, obsVars, pcMain, pcUpd>>
    /\ UNCHANGED <<pcShut, pcWait2>>

\* wait: ... and self._no_state_update_pending.is_set(): break
WaitReadEvent ==
    /\ pcWait.pc = "read_event"
    /\ IF waitMayBreak("STOPPED", pending)
       THEN /\ pcWait' = [pc |-> "idle"]
            /\ ghost' = [ghost EXCEPT
                  !.waitRet = IF state = "STOPPED" /\ pending
                              THEN "paired" ELSE "unpaired",
                  !.waitOn = IF ~ghost.waitAfter THEN None
                             ELSE IF ghost.answered THEN "fresh" ELSE "stale",
                  !.waitAfter = FALSE]
            /\ woken' = IF woken.armed
                        THEN [woken EXCEPT !.returned = @ \cup {"pcWait"}]
                        ELSE woken
       ELSE /\ pcWait' = [pc |-> "event_wait"]
            /\ UNCHANGED <<ghost, woken>>
    /\ UNCHANGED <<objVars, obsVars, pcMain, pcUpd>>
    /\ UNCHANGED <<pcShut, pcWait2>>

(* A second thread in Target.wait *)

Wait2Call ==
    /\ pcWait2.pc = "idle"
    /\ pcWait2' = [pc |-> "event_wait", after |-> None]
    /\ UNCHANGED <<objVars, obsVars, pcMain, pcUpd, pcWait, ghost, pcShut, woken>>

\* wait: self._no_state_update_pending.wait(.1)
Wait2Event ==
    /\ pcWait2.pc = "event_wait"
    /\ pcWait2' = [pcWait2 EXCEPT !.pc = "read_state"]
    /\ UNCHANGED <<objVars, obsVars, pcMain, pcUpd, pcWait, ghost, pcShut, woken>>

\* wait: self.state == TargetStates.STOPPED and ...
Wait2ReadState ==
    /\ pcWait2.pc = "read_state"
    /\ pcWait2' = [pcWait2 EXCEPT
                      !.pc = IF state = "STOPPED" THEN "read_event" ELSE "event_wait"]
    /\ UNCHANGED <<objVars, obsVars, pcMain, pcUpd, pcWait, ghost, pcShut, woken>>

\* wait: ... and self._no_state_update_pending.is_set(): break
Wait2ReadEvent ==
    /\ pcWait2.pc = "read_event"
    /\ IF waitMayBreak("STOPPED", pending)
       THEN /\ pcWait2' = NoWaiter
            /\ woken' = IF woken.armed
                        THEN [woken EXCEPT !.returned = @ \cup {"pcWait2"}]
                        ELSE woken
       ELSE /\ pcWait2' = [pcWait2 EXCEPT !.pc = "event_wait"]
            /\ UNCHANGED woken
    /\ UNCHANGED <<objVars, obsVars, pcMain, pcUpd, pcWait, ghost, pcShut>>

(* A thread in Target.shutdown, one statement at a time *)

\* The block after block i, or the end of shutdown().
shutNext(i) ==
    IF i < Len(ProtocolOrder) THEN [pc |-> "test", i |-> i + 1]
    ELSE [pc |-> "idle", i |-> 0]

ShutCall ==
    /\ pcShut.pc = "idle"
    /\ pcShut' = [pc |-> "test", i |-> 1]
    /\ UNCHANGED <<objVars, obsVars, pcMain, pcUpd, pcWait, ghost, pcWait2, woken>>

\* shutdown: if self._x_protocol:
ShutTest ==
    /\ pcShut.pc = "test"
    /\ pcShut' = IF slot[ProtocolOrder[pcShut.i]] # None
                 THEN [pcShut EXCEPT !.pc = "release"]
                 ELSE shutNext(pcShut.i)
    /\ UNCHANGED <<objVars, obsVars, pcMain, pcUpd, pcWait, ghost, pcWait2, woken>>

\* shutdown: self._x_protocol.shutdown(), which returns or raises
ShutRelease(raises) ==
    /\ pcShut.pc = "release"
    /\ released' = released \cup {ProtocolOrder[pcShut.i]}
    /\ pcShut' = IF raises THEN [pc |-> "idle", i |-> 0]
                 ELSE [pcShut EXCEPT !.pc = "assign"]
    /\ UNCHANGED <<state, pending, slot, status>>
    /\ UNCHANGED <<obsVars, pcMain, pcUpd, pcWait, ghost, pcWait2, woken>>

\* shutdown: self._x_protocol = None
ShutAssign ==
    /\ pcShut.pc = "assign"
    /\ slot' = [slot EXCEPT ![ProtocolOrder[pcShut.i]] = None]
    /\ pcShut' = shutNext(pcShut.i)
    /\ UNCHANGED <<state, pending, status, released>>
    /\ UNCHANGED <<obsVars, pcMain, pcUpd, pcWait, ghost, pcWait2, woken>>

ThreadNext ==
    \/ Attach("_exec_protocol")
    \/ \E a \in ThreadActions : MainCall(a)
    \/ MainCheckSlot
    \/ MainCheckState
    \/ MainClear
    \/ \E r \in AsyncResponses : MainForward(r)
    \/ \E s \in TargetStates : UpdCall(s)
    \/ UpdWriteState
    \/ UpdSetEvent
    \/ WaitCall
    \/ WaitEvent
    \/ WaitReadState
    \/ WaitReadEvent

ThreadSpec == Init /\ [][ThreadNext]_vars

(* shutdown() on one thread, cont/stop/step on another *)

ShutdownThreadNext ==
    \/ Attach("_exec_protocol")
    \/ \E a \in ThreadActions : MainCall(a)
    \/ MainCheckSlot
    \/ MainCheckState
    \/ MainClear
    \/ \E r \in AsyncResponses : MainForward(r)
    \/ \E s \in TargetStates : UpdCall(s)
    \/ UpdWriteState
    \/ UpdSetEvent
    \/ ShutCall
    \/ ShutTest
    \/ \E raises \in BOOLEAN : ShutRelease(raises)
    \/ ShutAssign

ShutdownThreadSpec == Init /\ [][ShutdownThreadNext]_vars

(* Two threads in wait(), scheduled fairly, beside an execution backend    *)
(* that reports STOPPED, RUNNING or EXITED and a caller of cont()          *)

WaiterReports == {"STOPPED", "RUNNING", "EXITED"}

WaiterAnswers == {r \in AsyncResponses : r.val \in {"r1", "e1"}}

WaitersNext ==
    \/ Attach("_exec_protocol")
    \/ MainCall("cont")
    \/ MainCheckSlot
    \/ MainCheckState
    \/ MainClear
    \/ \E r \in WaiterAnswers : MainForward(r)
    \/ \E s \in WaiterReports : UpdCall(s)
    \/ UpdWriteState
    \/ UpdSetEvent
    \/ WaitCall
    \/ WaitEvent
    \/ WaitReadState
    \/ WaitReadEvent
    \/ Wait2Call
    \/ Wait2Event
    \/ Wait2ReadState
    \/ Wait2ReadEvent

\* The scheduler runs every thread: a waiter inside wait() takes its next
\* step.  Nothing obliges a backend to report or a caller to call.
WaitersFair ==
    /\ WF_vars(WaitEvent) /\ WF_vars(WaitReadState) /\ WF_vars(WaitReadEvent)
    /\ WF_vars(Wait2Event) /\ WF_vars(Wait2ReadState) /\ WF_vars(Wait2ReadEvent)

WaitersSpec == Init /\ [][WaitersNext]_vars /\ WaitersFair

---------------------------------------------------------------------------
(* The properties.  The table of section 4.3 of the specification is       *)
(* restated here, apart from the model of the decorators' arguments.       *)

TableState(a) ==
    CASE a = "stop" -> "RUNNING"
      [] a \in {"cont", "step", "read_memory", "write_memory", "read_register",
                "write_register", "set_breakpoint", "set_watchpoint",
                "remove_breakpoint"} -> "STOPPED"

TableSlot(a) ==
    CASE a \in {"cont", "stop", "step", "set_breakpoint", "set_watchpoint",
                "remove_breakpoint"} -> "_exec_protocol"
      [] a \in {"read_memory", "write_memory"} -> "_memory_protocol"
      [] a \in {"read_register", "write_register"} -> "_register_protocol"

\* The calls of the log that went to a backend capability.
BackendCalls(log) == {i \in 1..Len(log) : log[i].to \in Protocols}

\* The log holds a call of Target.update_state.
ReportsState(log) ==
    \E i \in 1..Len(log) : log[i].to = "self" /\ log[i].method = "update_state"

\* The text of an error names x.
Names(msg, x) == \E i \in 1..Len(msg) : msg[i] = x

IsUndefinedError(r) ==
    r.kind = "error" /\ Len(r.msg) = 4 /\ r.msg[4] = " is undefined."

IsWrongStateError(r) ==
    r.kind = "error" /\ Len(r.msg) = 3 /\ r.msg[2] = "() requested but Target is "

AllEmpty == \A p \in Protocols : slot[p] = None

\* C1: a guarded action called with its capability slot empty or in a state
\* other than the required one raises an error and changes nothing: state,
\* the Event, the slots and the status mapping are as before and no call
\* went to a backend.
C1_FailedGuardHasNoEffect ==
    [][\A a \in GuardedActions :
          (ret'.op = a /\ (slot[TableSlot(a)] = None \/ state # TableState(a)))
          => /\ ret'.kind = "error"
             /\ calls' = <<>>
             /\ UNCHANGED <<state, pending, slot, status>>]_vars

\* C1's case: stop() was refused in STOPPED with the Event set and the
\* execution backend attached, and the status mapping filled.
C1_Witness ==
    /\ ret.op = "stop" /\ ret.kind = "error" /\ calls = <<>>
    /\ state = "STOPPED" /\ pending
    /\ slot["_exec_protocol"] # None /\ status.state = "STOPPED"

\* C2: a guarded action forwards exactly one call, to its own capability and
\* under its own name, exactly when that capability is attached and the state
\* is the required one (RUNNING for stop, STOPPED for the nine others), and
\* it returns what the capability returned; otherwise no call is made.  So
\* nothing is forwarded in CREATED, INITIALIZED, SYNCHING or EXITED, and
\* step() forwards nothing in RUNNING.
C2_ForwardsIffAttachedAndInState ==
    [][\A a \in GuardedActions :
          ret'.op = a =>
            /\ BackendCalls(calls') # {}
                 <=> (slot[TableSlot(a)] # None /\ state = TableState(a))
            /\ BackendCalls(calls') # {}
                 => /\ Cardinality(BackendCalls(calls')) = 1
                    /\ calls'[1].to = TableSlot(a) /\ calls'[1].method = a
                    /\ calls'[1].result \in Results
                         => ret'.kind = "return" /\ ret'.val = calls'[1].result
            /\ BackendCalls(calls') = {} => ret'.kind = "error"
            /\ state \in {"CREATED", "INITIALIZED", "SYNCHING", "EXITED"}
                 => BackendCalls(calls') = {}
            /\ (a = "step" /\ state = "RUNNING") => BackendCalls(calls') = {}
            /\ (a = "stop" /\ state # "RUNNING") => BackendCalls(calls') = {}
            /\ (a # "stop" /\ state # "STOPPED") => BackendCalls(calls') = {}]_vars

\* C2's case: read_memory was forwarded in STOPPED and returned the memory
\* backend's result.
C2_Witness ==
    /\ ret.op = "read_memory" /\ ret.kind = "return" /\ ret.val = "r2"
    /\ Len(calls) = 1 /\ calls[1] = Call("_memory_protocol", "read_memory", "r2")
    /\ state = "STOPPED"

\* C3 as stated: the error of a guarded action called with its capability
\* attached in a wrong state names the action, the required state and the
\* actual state.
C3_ErrorNamesExpectedAndActual ==
    [][\A a \in GuardedActions :
          (ret'.op = a /\ slot[TableSlot(a)] # None /\ state # TableState(a))
          => /\ ret'.kind = "error"
             /\ Names(ret'.msg, a)
             /\ Names(ret'.msg, TableState(a))
             /\ Names(ret'.msg, state)]_vars

\* C3 as amended: that error names the action and the actual state, and it
\* does not name the required state.
C3_ErrorNamesActionAndActual ==
    [][\A a \in GuardedActions :
          (ret'.op = a /\ slot[TableSlot(a)] # None /\ state # TableState(a))
          => /\ ret'.kind = "error"
             /\ Names(ret'.msg, a)
             /\ Names(ret'.msg, state)
             /\ ~Names(ret'.msg, TableState(a))]_vars

\* C3's case: step() was refused in RUNNING with the execution backend attached.
C3_Witness ==
    /\ ret.op = "step" /\ IsWrongStateError(ret)
    /\ state = "RUNNING" /\ slot["_exec_protocol"] # None

\* C4: the slot is tested before the state.  With the slot empty the error is
\* the "undefined" one whatever the state is, and the "wrong state" error
\* comes only with the capability attached.
C4_SlotCheckedBeforeState ==
    [][\A a \in GuardedActions :
          ret'.op = a =>
            /\ slot[TableSlot(a)] = None => IsUndefinedError(ret')
            /\ IsWrongStateError(ret') => slot[TableSlot(a)] # None]_vars

\* C4's case: cont() was refused as "undefined" while the state was wrong too.
C4_Witness ==
    /\ ret.op = "cont" /\ IsUndefinedError(ret)
    /\ state = "RUNNING" /\ slot["_exec_protocol"] = None

CoreOps ==
    GuardedActions \cup {"update_state", "wait", "get_status", "shutdown", "init"}

\* C5: when shutdown() returns normally all six slots are empty; no core
\* operation (a guarded action, update_state, wait, get_status, init,
\* shutdown) fills an empty slot again, so with all slots empty every
\* guarded action raises the "undefined" error, in whatever state.
C5_ShutdownEmptiesSlotsForGood ==
    [][/\ (ret'.op = "shutdown" /\ ret'.kind = "return") => AllEmpty'
       /\ (AllEmpty /\ ret'.op \in CoreOps) => AllEmpty'
       /\ \A a \in GuardedActions :
             (AllEmpty /\ ret'.op = a)
             => IsUndefinedError(ret') /\ calls' = <<>>]_vars

\* C5's case: after a shutdown that released backends, and a later report
\* of STOPPED, cont() was refused as "undefined".
C5_Witness ==
    /\ released = Protocols /\ AllEmpty
    /\ state = "STOPPED" /\ pending
    /\ ret.op = "cont" /\ IsUndefinedError(ret)

\* The backends shutdown() called in the log.
ShutDownIn(log) ==
    {log[i].to : i \in {j \in 1..Len(log) : log[j].method = "shutdown"}}

\* C6: over any number of shutdown() calls each attached backend's
\* shutdown() is invoked exactly once: a call invokes no backend that an
\* earlier call invoked, it skips the empty slots, a call that follows
\* another raises nothing, and the state is the same after it.
C6_ShutdownReleasesOnce ==
    [][ret'.op = "shutdown"
       => /\ ShutDownIn(calls') \cap released = {}
          /\ ShutDownIn(calls') \subseteq Attached
          /\ released # {} => ret'.kind = "return"
          /\ state' = state]_vars

\* C7: when a backend's shutdown() raises, the same shutdown() call still
\* invokes shutdown() on every other attached backend and empties its slot.
C7_ShutdownIsBestEffort ==
    [][(ret'.op = "shutdown" /\ ret'.kind = "error")
       => \A p \in Attached :
             p # ret'.msg[2] => p \in ShutDownIn(calls') /\ slot'[p] = None]_vars

\* C8: the state changes only where update_state is called (by a backend
\* between operations, or by a backend inside the call forwarded to it); a
\* guarded action, refused or forwarded, wait, get_status, init and
\* shutdown leave it as it is.  After a cont() forwarded from STOPPED whose
\* backend reported nothing, the state is STOPPED still.
C8_OnlyUpdateStateWritesState ==
    [][/\ state' # state => (ret'.op = "update_state" \/ ReportsState(calls'))
       /\ (ret'.op \in (GuardedActions \cup {"wait", "get_status", "init", "shutdown"})
           /\ ~ReportsState(calls')) => state' = state
       /\ (ret'.op = "cont" /\ ret'.kind = "return" /\ ~ReportsState(calls'))
             => state = "STOPPED" /\ state' = "STOPPED"]_vars

\* C8's case: cont() was forwarded and returned, the backend has reported
\* nothing yet, and the state is STOPPED, the Event cleared.
C8_Witness ==
    /\ ret.op = "cont" /\ ret.kind = "return"
    /\ calls = <<Call("_exec_protocol", "cont", "r1")>>
    /\ state = "STOPPED" /\ ~pending

\* C9: wait() returns only at a moment when the state is STOPPED and the
\* Event is set, both at once, however its two reads interleave with the
\* clear in cont() and the two writes of update_state.
C9_WaitReturnsOnPairedStop == ghost.waitRet # "unpaired"

\* C10: a wait() called after a forwarded cont(), stop() or step() returns
\* only once an update_state(STOPPED) that was called after that action has
\* reported, never on an earlier report of STOPPED.
C10_WaitReturnsOnFreshStop == ghost.waitOn # "stale"

\* The state the last update_state of the log was called with.
Reported(log) ==
    log[CHOOSE i \in 1..Len(log) :
          /\ log[i].to = "self" /\ log[i].method = "update_state"
          /\ \A j \in (i + 1)..Len(log) : log[j].method # "update_state"].result

\* C11: get_status() returns the status mapping with 'state' equal to the S
\* of the latest update_state(S), for each of the six states, and with the
\* auxiliary key as it was put.  Stated stepwise: a step that calls
\* update_state(S) leaves state = S, a step that calls none leaves the state
\* alone, and get_status returns self.status with 'state' set to the state
\* and the auxiliary entry untouched.
C11_GetStatusReflectsUpdate ==
    [][/\ ReportsState(calls') => state' = Reported(calls')
       /\ ~ReportsState(calls') => state' = state
       /\ ret'.op = "get_status"
            => /\ ret' = Returned("get_status", "self.status")
               /\ status'.state = state
               /\ status'.aux = status.aux]_vars

\* C11's case: get_status after update_state(EXITED), with an auxiliary
\* key put before.
C11_Witness ==
    /\ ret.op = "get_status"
    /\ state = "EXITED" /\ status = [state |-> "EXITED", aux |-> "v2"]

\* C12 as stated: get_status() changes no field: state, Event, slots and the
\* stored status mapping are the same after it.
C12_GetStatusIsReadOnly ==
    [][ret'.op = "get_status" => UNCHANGED <<state, pending, slot, status>>]_vars

\* C12 as amended: get_status() changes nothing but the 'state' entry of the
\* stored status mapping, which it sets to the current state.
C12_GetStatusWritesOnlyStateEntry ==
    [][ret'.op = "get_status"
       => /\ UNCHANGED <<state, pending, slot>>
          /\ status' = [status EXCEPT !.state = state]]_vars

\* C12's case: get_status replaced a stored 'state' entry by another.
C12_Witness ==
    /\ ret.op = "get_status"
    /\ status = [state |-> "RUNNING", aux |-> "v1"] /\ ~pending

Clearing == {"cont", "stop", "step"}

\* C13 as stated: the Event is unset on the fresh target (state CREATED, six
\* empty slots); it is set only where update_state is called; it is cleared
\* only by a cont(), stop() or step() that succeeds, and before the call is
\* forwarded (a report made by the backend inside that call leaves it set);
\* the seven other guarded actions, every guarded action that ends in an
\* error, get_status, wait, init and shutdown leave it as it is.
C13_EventClearedOnlyBySuccess ==
    /\ (~pending /\ state = "CREATED" /\ AllEmpty)
    /\ [][/\ (~pending /\ pending')
               => (ret'.op = "update_state" \/ ReportsState(calls'))
          /\ (pending /\ ~pending')
               => (ret'.op \in Clearing /\ ret'.kind = "return")
          /\ (ret'.op \in Clearing /\ ret'.kind = "return")
               => pending' = ReportsState(calls')
          /\ (ret'.op \in (GuardedActions \ Clearing)
                            \cup {"get_status", "wait", "init", "shutdown"}
              /\ ~ReportsState(calls')) => pending' = pending
          /\ (ret'.op \in GuardedActions /\ ret'.kind = "error"
              /\ ~ReportsState(calls')) => pending' = pending]_vars

\* C13 as amended: as above, with "succeeds" read as "passes the guard": a
\* cont(), stop() or step() that is forwarded clears the Event also when the
\* forwarded call raises, and the guarded actions that leave it as it is are
\* the seven others and those the guard refuses.
C13_EventClearedOnlyByForwarded ==
    /\ (~pending /\ state = "CREATED" /\ AllEmpty)
    /\ [][/\ (~pending /\ pending')
               => (ret'.op = "update_state" \/ ReportsState(calls'))
          /\ (pending /\ ~pending')
               => (ret'.op \in Clearing /\ BackendCalls(calls') # {})
          /\ (ret'.op \in Clearing /\ BackendCalls(calls') # {})
               => pending' = ReportsState(calls')
          /\ (ret'.op \in (GuardedActions \ Clearing)
                            \cup {"get_status", "wait", "init", "shutdown"}
              /\ ~ReportsState(calls')) => pending' = pending
          /\ (ret'.op \in GuardedActions /\ BackendCalls(calls') = {})
               => pending' = pending]_vars

\* C13's case: a step() whose forwarded call raised has cleared the Event
\* that the report of STOPPED had set.
C13_Witness ==
    /\ ret.op = "step" /\ ret.kind = "error"
    /\ calls = <<Call("_exec_protocol", "step", "e1")>>
    /\ state = "STOPPED" /\ ~pending

\* C14: update_state has no guard and no transition table.  In every state
\* of the target, EXITED and the target emptied by shutdown included, it can
\* be called with each of the six states; the call returns, leaves
\* state = S and the Event set, and leaves the slots as they are.
C14_UpdateStateIsUnguarded ==
    [][/\ \A s \in TargetStates : ENABLED UpdateState(s)
       /\ ret'.op = "update_state"
            => /\ ret'.kind = "return"
               /\ state' = Reported(calls') /\ state' \in TargetStates
               /\ pending'
               /\ slot' = slot]_vars

\* C14's case: a report of RUNNING on a target that was seen EXITED by
\* get_status and whose backends shutdown() has released.
C14_Witness ==
    /\ ret.op = "update_state" /\ state = "RUNNING" /\ pending
    /\ status.state = "EXITED"
    /\ AllEmpty /\ released # {}

\* C15: a backend that calls update_state on the caller's thread, inside the
\* call forwarded to it, blocks nothing: whenever the guard of an action
\* passes, the action can run to its end with every answer of the backend,
\* a report included; and after an action whose backend reported inside the
\* call, the state is the reported one, the Event is set, and the action
\* has returned what the backend returned.
C15_SynchronousReportCompletes ==
    [][\A a \in GuardedActions :
          /\ (slot[TableSlot(a)] # None /\ state = TableState(a))
               => \A r \in Responses : ENABLED Guarded(a, r)
          /\ (ret'.op = a /\ ReportsState(calls'))
               => /\ state' = Reported(calls')
                  /\ pending'
                  /\ calls'[1].result \in Results
                       => ret' = Returned(a, calls'[1].result)]_vars

\* C15's case: cont() returned after its backend had reported RUNNING
\* inside the forwarded call.
C15_Witness ==
    /\ ret = Returned("cont", "r1")
    /\ calls = <<Call("_exec_protocol", "cont", "r1"),
                 Call("self", "update_state", "RUNNING")>>
    /\ state = "RUNNING" /\ pending

C16_WaitReturnsWhileStopped ==
    (pcWait.pc # "idle")
        ~> (pcWait.pc = "idle" \/ ~(state = "STOPPED" /\ pending))

\* C16's case: a wait() has returned on a target that is STOPPED with the
\* Event set, and no report is under way.
C16_Witness ==
    /\ pcWait.pc = "idle" /\ ghost.waitRet = "paired"
    /\ state = "STOPPED" /\ pending
    /\ pcUpd.pc = "idle"

\* C17: a thread inside wait() is not released by a report of a state
\* other than STOPPED: when such a report is called while the thread is
\* inside wait() and the target is not STOPPED with the Event set, the
\* thread does not return until update_state(STOPPED) is called.
C17_NonStoppedReportNeverReleases ==
    [][(pcWait2.pc = "read_event" /\ pcWait2'.pc = "idle")
          => pcWait2.after = None]_vars

\* C19: with shutdown() on another thread, a guarded action whose guard has
\* passed makes its forwarded call on a slot that still holds its backend,
\* and on a backend whose shutdown() has not been invoked.
C19_ForwardsOnLiveSlot ==
    [][(pcMain.pc = "forward" /\ pcMain'.pc = "idle")
          => /\ slot[RequiredProtocol(pcMain.op)] # None
             /\ RequiredProtocol(pcMain.op) \notin released]_vars

\* C20: no step of a thread inside wait() changes the state or the Event;
\* so the waiters that were inside wait() when update_state(STOPPED) set the
\* Event all return, unless a cont/stop/step or another update_state comes
\* first, and a waiter that finds the target STOPPED with the Event set
\* after another waiter has returned returns as well.
C20_WaitKeepsNotification ==
    /\ [][(pcWait' # pcWait \/ pcWait2' # pcWait2)
             => UNCHANGED <<state, pending>>]_vars
    /\ (woken.armed /\ state = "STOPPED" /\ pending /\ pcUpd.pc = "idle")
          ~> \/ woken.returned = {"pcWait", "pcWait2"}
             \/ ~(state = "STOPPED" /\ pending)
             \/ pcUpd.pc # "idle"
    /\ (pcWait2.pc # "idle" /\ ghost.waitRet = "paired")
          ~> (pcWait2.pc = "idle" \/ ~(state = "STOPPED" /\ pending))

\* C20's case: both waiters were inside wait() when one update_state(STOPPED)
\* set the Event, and both have returned since.
C20_Witness ==
    /\ woken.armed /\ woken.returned = {"pcWait", "pcWait2"}
    /\ pcWait.pc = "idle" /\ pcWait2.pc = "idle"
    /\ state = "STOPPED" /\ pending
    /\ pcUpd.pc = "idle"

=============================================================================
